---- MODULE Spec2Model ----
(***************************************************************************)
(* Billing reconciliation of the customer-management application:          *)
(* the Stripe webhook handlers of server.py, the customer and admin        *)
(* subscription routes, and the sqlite ledger of customers_db.py.          *)
(*                                                                         *)
(* Money is kept in minor units (cents): the handlers' "/ 100" only        *)
(* changes the unit.  Identifiers are strings; SQL NULL / Python None /    *)
(* an absent or empty metadata entry is the string NULL.                   *)
(***************************************************************************)
EXTENDS Integers, Sequences, FiniteSets, TLC

\* Number of requests (webhook deliveries, customer and admin requests)
\* a behaviour of Spec applies.
MaxOps == 4

\* Number of create_agreement calls a behaviour of AgreeSpec makes.
MaxAgreements == 3

NULL == "NULL"

(***************************************************************************)
(* The processor's objects, as the webhook deliveries carry them.          *)
(***************************************************************************)

\* checkout.session.completed payloads, by checkout session id.
CheckoutSessions ==
  [ cs_pi     |-> [mode |-> "payment", customer_id |-> "c1", project_id |-> "p1",
                   milestone_id |-> NULL, payment_intent |-> "pi_1",
                   amount_total |-> 100, subscription |-> NULL],
    cs_nopi   |-> [mode |-> "payment", customer_id |-> "c1", project_id |-> "p1",
                   milestone_id |-> NULL, payment_intent |-> NULL,
                   amount_total |-> 50, subscription |-> NULL],
    cs_ms     |-> [mode |-> "payment", customer_id |-> "c1", project_id |-> "p1",
                   milestone_id |-> "m2", payment_intent |-> "pi_2",
                   amount_total |-> 50, subscription |-> NULL],
    cs_sub    |-> [mode |-> "subscription", customer_id |-> "c1", project_id |-> "p2",
                   milestone_id |-> NULL, payment_intent |-> NULL,
                   amount_total |-> 20, subscription |-> "sub_1"],
    cs_nometa |-> [mode |-> "payment", customer_id |-> NULL, project_id |-> NULL,
                   milestone_id |-> NULL, payment_intent |-> "pi_3",
                   amount_total |-> 100, subscription |-> NULL],
    cs_nocust |-> [mode |-> "payment", customer_id |-> NULL, project_id |-> "p1",
                   milestone_id |-> NULL, payment_intent |-> "pi_4",
                   amount_total |-> 100, subscription |-> NULL],
    cs_noproj |-> [mode |-> "payment", customer_id |-> "c1", project_id |-> NULL,
                   milestone_id |-> NULL, payment_intent |-> "pi_5",
                   amount_total |-> 100, subscription |-> NULL] ]

SessionIds == DOMAIN CheckoutSessions

\* customer.subscription.created payloads, by event id.
CreatedEvents ==
  [ ce_meta   |-> [id |-> "sub_1", project_id |-> "p2", email |-> "c1",
                   current_period_end |-> "d1", latest_invoice |-> "in_1",
                   unit_amount |-> 20],
    ce_nometa |-> [id |-> "sub_1", project_id |-> NULL, email |-> "c1",
                   current_period_end |-> "d1", latest_invoice |-> "in_1",
                   unit_amount |-> 20],
    ce_noemail|-> [id |-> "sub_2", project_id |-> "p3", email |-> NULL,
                   current_period_end |-> NULL, latest_invoice |-> "in_2",
                   unit_amount |-> 20],
    ce_bare   |-> [id |-> "sub_1", project_id |-> NULL, email |-> NULL,
                   current_period_end |-> "d1", latest_invoice |-> "in_1",
                   unit_amount |-> 20],
    ce_other  |-> [id |-> "sub_1", project_id |-> NULL, email |-> "c2",
                   current_period_end |-> "d1", latest_invoice |-> "in_1",
                   unit_amount |-> 20],
    ce_unknown|-> [id |-> "sub_1", project_id |-> NULL, email |-> "c9",
                   current_period_end |-> "d1", latest_invoice |-> "in_1",
                   unit_amount |-> 20] ]

CreatedIds == DOMAIN CreatedEvents

\* customer.subscription.updated payloads: the subscription id, its status,
\* cancel_at_period_end and the first item's current_period_end.
UpdatedEvents ==
  { [id |-> "sub_1", status |-> st[1], cancel_at_period_end |-> st[2],
     current_period_end |-> "d2"] :
       st \in {<<"active", FALSE>>, <<"active", TRUE>>, <<"canceled", FALSE>>,
               <<"past_due", FALSE>>, <<"trialing", FALSE>>} }
  \cup { [id |-> "sub_1", status |-> "active", cancel_at_period_end |-> FALSE,
          current_period_end |-> NULL],
         [id |-> "sub_1", status |-> "past_due", cancel_at_period_end |-> FALSE,
          current_period_end |-> NULL],
         [id |-> "sub_9", status |-> "active", cancel_at_period_end |-> FALSE,
          current_period_end |-> "d2"] }

\* Subscription ids of customer.subscription.deleted payloads.
DeletedSubs == {"sub_1", "sub_9"}

\* invoice.payment_succeeded / invoice.payment_failed payloads, by invoice id.
Invoices ==
  [ in_1 |-> [subscription |-> "sub_1", amount_paid |-> 20, amount_due |-> 20],
    in_9 |-> [subscription |-> "sub_9", amount_paid |-> 20, amount_due |-> 20],
    in_0 |-> [subscription |-> NULL,    amount_paid |-> 20, amount_due |-> 20] ]

InvoiceIds == DOMAIN Invoices

\* Payment-intent ids of payment_intent.* payloads.
IntentIds == {"pi_1"}

\* What stripe.Subscription.retrieve answers: an error, a subscription
\* without a billing-period end, or one with it.
RetrieveResults == {"error", NULL, "d2"}

\* What stripe.Subscription.modify answers.
ModifyResults == {"ok", "error"}

\* POSTs of the customer's confirm-manual-payment form:
\* the session's customer, the project of the URL, the payment_method field.
ConfirmForms ==
  { [customer_id |-> "c1", project_id |-> "p2", payment_method |-> "venmo"],
    [customer_id |-> "c2", project_id |-> "p2", payment_method |-> "venmo"],
    [customer_id |-> "c1", project_id |-> "p2", payment_method |-> ""],
    [customer_id |-> "c1", project_id |-> "p9", payment_method |-> "venmo"] }

\* POSTs of the customer's cancel-subscription form.
CancelForms ==
  { [customer_id |-> "c1", project_id |-> "p2"],
    [customer_id |-> "c2", project_id |-> "p2"],
    [customer_id |-> "c1", project_id |-> "p9"] }

\* POSTs of the customer's switch-to-manual form: the session's customer and
\* the project of the URL (p1 is no subscription, p9 does not exist).
SwitchForms ==
  { [customer_id |-> "c1", project_id |-> "p2"],
    [customer_id |-> "c2", project_id |-> "p2"],
    [customer_id |-> "c1", project_id |-> "p1"],
    [customer_id |-> "c1", project_id |-> "p9"] }

\* POSTs of the customer's create-checkout-session form: the session's
\* customer, the form's project_id and milestone_id.
CheckoutForms ==
  { [customer_id |-> "c1", project_id |-> "p1", milestone_id |-> "m2"],
    [customer_id |-> "c1", project_id |-> "p2", milestone_id |-> NULL],
    [customer_id |-> "c2", project_id |-> "p2", milestone_id |-> NULL],
    [customer_id |-> "c1", project_id |-> "p3", milestone_id |-> NULL],
    [customer_id |-> "c1", project_id |-> "p9", milestone_id |-> NULL] }

\* What stripe.checkout.Session.create answers.
SessionCreateResults == {"ok", "error"}

\* POSTs of the admin's subscription form with action switch_payment_method:
\* the project of the URL and new_payment_method_type.
AdminSwitchForms ==
  { [project_id |-> "p2", new_payment_method_type |-> "manual"],
    [project_id |-> "p2", new_payment_method_type |-> "cash"] }

\* POSTs of the admin's record_manual_payment form (amounts in dollars).
ManualForms ==
  { [project_id |-> "p2", payment_amount |-> "0.30", payment_method |-> "venmo",
     payment_date |-> "", next_payment_date_manual |-> ""],
    [project_id |-> "p2", payment_amount |-> "-0.30", payment_method |-> "venmo",
     payment_date |-> "", next_payment_date_manual |-> ""],
    [project_id |-> "p2", payment_amount |-> "0.30", payment_method |-> "paypal",
     payment_date |-> "", next_payment_date_manual |-> ""],
    [project_id |-> "p2", payment_amount |-> "", payment_method |-> "venmo",
     payment_date |-> "", next_payment_date_manual |-> ""],
    [project_id |-> "p2", payment_amount |-> "abc", payment_method |-> "venmo",
     payment_date |-> "", next_payment_date_manual |-> ""],
    [project_id |-> "p2", payment_amount |-> "0.30", payment_method |-> "venmo",
     payment_date |-> "03/01/2026", next_payment_date_manual |-> ""],
    [project_id |-> "p2", payment_amount |-> "0.30", payment_method |-> "venmo",
     payment_date |-> "2026-03-01", next_payment_date_manual |-> "soon"] }

\* Milestone ids of the admin's POST /admin/milestones/<id>/complete.
CompleteIds == {"m2", "m9"}

\* POSTs of the admin's edit-project form: the project and the status field.
EditForms ==
  { [project_id |-> "p2", status |-> st] : st \in {"in_progress", "cancelled"} }

(***************************************************************************)
(* The ledger (customers.db) and the request history.                      *)
(***************************************************************************)
VARIABLES
  projects,    \* projects table: project id -> row
  milestones,  \* project_milestones table: milestone id -> row
  payments,    \* payments table: the rows in id (insertion) order
  links,       \* stripe_payment_links table: session id -> used
  now,         \* the server clock, in whole seconds
  resp,        \* HTTP status of the last request
  calls,       \* the outbound calls (processor, mail) the last request made
  last,        \* the last request applied
  nops,        \* number of requests applied
  admin_cancelled, \* history: the projects whose status the admin set to cancelled
  backfilled,  \* the customer's browser session holds 'payment_dates_backfilled'
  sess,        \* concurrent deliveries: the checkout session they carry
  pc,          \* concurrent requests: where each stands in its handler
  found,       \* concurrent deliveries: the handler's local milestone
  wresp,       \* concurrent requests: the HTTP status answered (0: none yet)
  agreements,  \* project_agreements table: the rows in id order
  signatures,  \* agreement_signatures table: the rows in id order
  apc,         \* agreement requests: where each stands, or how it ended
  alocal       \* agreement requests: the local variables of each

\* The ledger.
db == <<projects, milestones, payments, links>>
\* The serial request history.
hist == <<now, resp, calls, last, nops, admin_cancelled, backfilled>>
\* The requests in flight.
conc == <<sess, pc, found, wresp>>
\* The agreements and the requests on them.
agree == <<agreements, signatures, apc, alocal>>

vars == <<projects, milestones, payments, links, now, resp, calls, last, nops,
          admin_cancelled, backfilled, sess, pc, found, wresp,
          agreements, signatures, apc, alocal>>

ProjectIds == {"p1", "p2", "p3"}
MilestoneIds == {"m1", "m2", "m3"}
CustomerIds == {"c1", "c2"}

\* customers table: the email column is UNIQUE; a customer's email is
\* written as the customer's id.
get_customer_by_email(email) ==
  IF email \in CustomerIds THEN email ELSE NULL

InitProjects ==
  [ p1 |-> [customer_id |-> "c1", status |-> "in_progress", amount_paid |-> 0,
            is_subscription |-> FALSE, stripe_subscription_id |-> NULL,
            subscription_status |-> "inactive", next_payment_date |-> NULL,
            payment_method_type |-> "stripe", created_at |-> 1,
            stripe_price_id |-> NULL],
    p2 |-> [customer_id |-> "c1", status |-> "in_progress", amount_paid |-> 0,
            is_subscription |-> TRUE, stripe_subscription_id |-> NULL,
            subscription_status |-> "inactive", next_payment_date |-> NULL,
            payment_method_type |-> "stripe", created_at |-> 2,
            stripe_price_id |-> "price_1"],
    p3 |-> [customer_id |-> "c1", status |-> "in_progress", amount_paid |-> 0,
            is_subscription |-> TRUE, stripe_subscription_id |-> NULL,
            subscription_status |-> "inactive", next_payment_date |-> NULL,
            payment_method_type |-> "stripe", created_at |-> 3,
            stripe_price_id |-> NULL] ]

\* project_milestones: payment_amount is a REAL the admin typed, kept here in
\* tenths of a cent (m3 is 0.504, within a cent of m2's 0.50).
InitMilestones ==
  [ m1 |-> [project_id |-> "p1", status |-> "pending", is_payment_milestone |-> TRUE,
            payment_amount |-> 1000, order_index |-> 0, marks |-> 0],
    m2 |-> [project_id |-> "p1", status |-> "pending", is_payment_milestone |-> TRUE,
            payment_amount |-> 500, order_index |-> 1, marks |-> 0],
    m3 |-> [project_id |-> "p1", status |-> "pending", is_payment_milestone |-> TRUE,
            payment_amount |-> 504, order_index |-> 2, marks |-> 0] ]

\* Two admin requests that create agreements and two customer requests that
\* sign one.
Creators == {"a1", "a2"}
Signers == {"s1", "s2"}

\* Two deliveries of one webhook event, and one admin request.
Deliveries == {"w1", "w2"}
Workers == Deliveries \cup {"adm"}

\* Checkout sessions the admin's create_payment_link created and saved with
\* save_payment_link: cs_pi for project p1, cs_noproj without a project
\* (metadata project_id '').
SavedLinks == {"cs_pi", "cs_noproj"}

InitLedger ==
  /\ projects = InitProjects
  /\ milestones = InitMilestones
  /\ payments = << >>
  /\ links = [s \in SavedLinks |-> FALSE]
  /\ now = 0
  /\ resp = 200
  /\ calls = {}
  /\ last = <<"init">>
  /\ nops = 0
  /\ admin_cancelled = {}
  /\ backfilled = FALSE
  /\ agreements = << >>
  /\ signatures = << >>
  /\ apc = [w \in Creators \cup Signers |-> "idle"]
  /\ alocal = [w \in Creators \cup Signers |-> NULL]

\* Requests are served one at a time.
Init ==
  /\ InitLedger
  /\ sess = NULL
  /\ pc = [w \in Workers |-> "idle"]
  /\ found = [w \in Deliveries |-> NULL]
  /\ wresp = [w \in Workers |-> 0]

\* One more request is applied: it becomes the last one.
Request(r) ==
  /\ nops < MaxOps
  /\ nops' = nops + 1
  /\ last' = r
  /\ admin_cancelled' =
       IF r[1] # "edit_project" THEN admin_cancelled
       ELSE IF r[3] = "cancelled" THEN admin_cancelled \cup {r[2]}
       ELSE admin_cancelled \ {r[2]}
  /\ UNCHANGED <<conc, agree>>

(***************************************************************************)
(* customers_db.py                                                         *)
(***************************************************************************)
\* An allow-list that lets payment_method_type through.
allowed_fields_WithMethod ==
  {"project_name", "project_type", "status", "total_amount", "payment_plan",
   "start_date", "end_date", "description", "notes", "is_subscription",
   "stripe_price_id", "stripe_subscription_id", "subscription_status",
   "next_payment_date", "payment_method_type"}

\* update_project: the fields it writes.
allowed_fields ==
  {"project_name", "project_type", "status", "total_amount", "payment_plan",
   "start_date", "end_date", "description", "notes", "is_subscription",
   "stripe_price_id", "stripe_subscription_id", "subscription_status",
   "next_payment_date"}

\* UPDATE projects SET <the allowed fields of kw> WHERE id = pid
update_project(P, pid, kw) ==
  IF pid \notin DOMAIN P THEN P
  ELSE [P EXCEPT ![pid] =
          [f \in DOMAIN P[pid] |->
             IF f \in (DOMAIN kw) \cap allowed_fields THEN kw[f] ELSE P[pid][f]]]

\* update_project_paid_amount with a slip: the amount is written over the
\* stored one instead of added to it.
update_project_paid_amount_Overwrites(P, pid, amount_to_add) ==
  IF pid \notin DOMAIN P THEN P
  ELSE [P EXCEPT ![pid].amount_paid = amount_to_add]

\* UPDATE projects SET amount_paid = amount_paid + ? WHERE id = ?
update_project_paid_amount(P, pid, amount_to_add) ==
  IF pid \notin DOMAIN P THEN P
  ELSE [P EXCEPT ![pid].amount_paid = @ + amount_to_add]

\* UPDATE project_milestones SET status = 'completed', completed_at = now
\* WHERE id = ?; marks counts the times the row was written so (history: each
\* write replaces completed_at).
mark_milestone_complete(M, mid) ==
  IF mid \notin DOMAIN M THEN M
  ELSE [M EXCEPT ![mid].status = "completed", ![mid].marks = @ + 1]

\* SELECT * FROM project_milestones WHERE project_id = ? ORDER BY order_index
get_milestones_by_project(M, pid) ==
  {m \in DOMAIN M : M[m].project_id = pid}

\* A payments row; origin is the request that inserted it (history only,
\* no column of the table).
PaymentRow(customer_id, project_id, milestone_id, intent, session, sub, amount, payment_type, status, payment_method, origin) ==
  [customer_id |-> customer_id, project_id |-> project_id,
   milestone_id |-> milestone_id, stripe_payment_intent_id |-> intent,
   stripe_checkout_session_id |-> session, stripe_subscription_id |-> sub,
   amount |-> amount, payment_type |-> payment_type, status |-> status,
   payment_method |-> payment_method, origin |-> origin]

\* The payments table's one uniqueness constraint:
\* stripe_payment_intent_id TEXT UNIQUE (NULLs never collide).
IntegrityError(Pay, row) ==
  /\ row.stripe_payment_intent_id # NULL
  /\ \E i \in 1..Len(Pay) :
       Pay[i].stripe_payment_intent_id = row.stripe_payment_intent_id

\* INSERT INTO payments ...: the table with the row appended; the caller
\* tests IntegrityError first.
create_payment(Pay, row) == Append(Pay, row)

\* UPDATE payments SET status = ? WHERE stripe_payment_intent_id = ?
update_payment_status(Pay, payment_intent_id, status) ==
  [i \in 1..Len(Pay) |->
     IF Pay[i].stripe_payment_intent_id = payment_intent_id
     THEN [Pay[i] EXCEPT !.status = status] ELSE Pay[i]]

\* SELECT * FROM stripe_payment_links WHERE stripe_session_id = ?
get_payment_link_by_session_id(L, session_id) == session_id \in DOMAIN L

\* UPDATE stripe_payment_links SET used = 1 WHERE stripe_session_id = ?
mark_payment_link_used(L, session_id) ==
  IF session_id \in DOMAIN L THEN [L EXCEPT ![session_id] = TRUE] ELSE L

(***************************************************************************)
(* server.py: handle_successful_payment                                    *)
(***************************************************************************)

\* A comparison without the tolerance.
WithinTolerance_Exact(payment_amount, amount) == payment_amount = 10 * amount

\* abs(payment_amount - amount) < 0.01, payment_amount in tenths of a cent
\* and amount in cents.
WithinTolerance(payment_amount, amount) ==
  LET d == payment_amount - 10 * amount
  IN (IF d < 0 THEN -d ELSE d) < 10

\* The milestones the loop of handle_successful_payment would accept.
Candidates(M, pid, amount) ==
  {m \in get_milestones_by_project(M, pid) :
     /\ M[m].is_payment_milestone
     /\ M[m].status # "completed"
     /\ M[m].payment_amount # 0
     /\ WithinTolerance(M[m].payment_amount, amount)}

\* The payment milestone the handler auto-completes for a checkout without
\* milestone id: the loop runs in order_index order and breaks at the first
\* candidate; NULL if there is none.
MatchingMilestone(M, pid, amount) ==
  LET cand == Candidates(M, pid, amount)
  IN IF cand = {} THEN NULL
     ELSE CHOOSE m \in cand : \A n \in cand : M[m].order_index <= M[n].order_index

\* The Payment row of a one-time checkout.
CheckoutPayment(s) ==
  LET cs == CheckoutSessions[s]
  IN PaymentRow(cs.customer_id, cs.project_id, cs.milestone_id, cs.payment_intent,
                s, NULL, cs.amount_total, "one_time", "succeeded", "stripe_card",
                <<"checkout", s>>)

\* Milestone completion of a one-time checkout.
CheckoutMilestones(M, s) ==
  LET cs == CheckoutSessions[s]
      hit == MatchingMilestone(M, cs.project_id, cs.amount_total)
  IN IF cs.milestone_id # NULL THEN mark_milestone_complete(M, cs.milestone_id)
     ELSE IF hit # NULL THEN mark_milestone_complete(M, hit)
     ELSE M

\* MissingMetadata with a slip: the event is dropped only when both
\* identifiers are absent.
MissingMetadata_Both(cs) == cs.customer_id = NULL /\ cs.project_id = NULL

\* "if not customer_id or not project_id": the event is dropped.
MissingMetadata(cs) == cs.customer_id = NULL \/ cs.project_id = NULL

\* A handler that books a subscription checkout as a payment as well.
handle_successful_payment_BooksSubscription(s) ==
  LET cs == CheckoutSessions[s]
      row == CheckoutPayment(s)
  IN IF MissingMetadata(cs)
     THEN UNCHANGED <<projects, milestones, payments, links>>
     ELSE IF IntegrityError(payments, row)
     THEN UNCHANGED <<projects, milestones, payments, links>>
     ELSE /\ payments' = create_payment(payments, row)
          /\ projects' =
               IF cs.mode = "subscription" /\ cs.subscription # NULL
               THEN update_project(
                      update_project_paid_amount(projects, cs.project_id,
                                                 cs.amount_total),
                      cs.project_id,
                      [stripe_subscription_id |-> cs.subscription,
                       subscription_status |-> "active"])
               ELSE update_project_paid_amount(projects, cs.project_id,
                                               cs.amount_total)
          /\ milestones' = CheckoutMilestones(milestones, s)
          /\ links' = IF get_payment_link_by_session_id(links, s)
                      THEN mark_payment_link_used(links, s) ELSE links

\* checkout.session.completed: the whole handler, run to its end.
handle_successful_payment(s) ==
  LET cs == CheckoutSessions[s]
      row == CheckoutPayment(s)
  IN IF MissingMetadata(cs)
     THEN UNCHANGED <<projects, milestones, payments, links>>
     ELSE IF cs.mode = "subscription"
     THEN /\ projects' = IF cs.subscription # NULL
                         THEN update_project(projects, cs.project_id,
                                [stripe_subscription_id |-> cs.subscription,
                                 subscription_status |-> "active"])
                         ELSE projects
          /\ UNCHANGED <<milestones, payments, links>>
     ELSE IF IntegrityError(payments, row)
     THEN UNCHANGED <<projects, milestones, payments, links>>
     ELSE /\ payments' = create_payment(payments, row)
          /\ projects' = update_project_paid_amount(projects, cs.project_id,
                                                    cs.amount_total)
          /\ milestones' = CheckoutMilestones(milestones, s)
          /\ links' = IF get_payment_link_by_session_id(links, s)
                      THEN mark_payment_link_used(links, s) ELSE links

\* POST /customers/stripe-webhook with a checkout.session.completed event.
CheckoutCompleted ==
  \E s \in SessionIds :
    /\ Request(<<"checkout", s>>)
    /\ handle_successful_payment(s)
    /\ resp' = 200
    /\ calls' = {}
    /\ UNCHANGED <<now, backfilled>>

(***************************************************************************)
(* server.py: payment_intent.succeeded / payment_intent.payment_failed     *)
(***************************************************************************)
PaymentIntentEvent ==
  \E pi \in IntentIds, st \in {"succeeded", "failed"} :
    /\ Request(<<"payment_intent", pi, st>>)
    /\ payments' = update_payment_status(payments, pi, st)
    /\ resp' = 200
    /\ calls' = {}
    /\ UNCHANGED <<projects, milestones, links, now, backfilled>>

(***************************************************************************)
(* server.py: the subscription handlers                                    *)
(***************************************************************************)

\* ProjectBySubscription with a slip: an unmatched subscription id falls
\* back to the oldest subscription project.
ProjectBySubscription_Fallback(P, sub) ==
  LET S == {p \in DOMAIN P : P[p].stripe_subscription_id = sub}
      T == IF S # {} THEN S ELSE {p \in DOMAIN P : P[p].is_subscription}
  IN IF T = {} THEN NULL
     ELSE CHOOSE p \in T : \A q \in T : P[p].created_at <= P[q].created_at

\* SELECT id FROM projects WHERE stripe_subscription_id = ? (fetchone: the
\* first row of the table scan, i.e. the oldest project); NULL if none.
ProjectBySubscription(P, sub) ==
  LET S == {p \in DOMAIN P : P[p].stripe_subscription_id = sub}
  IN IF S = {} THEN NULL
     ELSE CHOOSE p \in S : \A q \in S : P[p].created_at <= P[q].created_at

\* A fallback that takes the customer's oldest unlinked subscription project.
UnlinkedSubscriptionProject_Oldest(P, customer) ==
  LET S == {p \in DOMAIN P : /\ P[p].customer_id = customer
                             /\ P[p].is_subscription
                             /\ P[p].stripe_subscription_id = NULL}
  IN IF S = {} THEN NULL
     ELSE CHOOSE p \in S : \A q \in S : P[p].created_at <= P[q].created_at

\* SELECT id FROM projects WHERE customer_id = ? AND is_subscription = 1
\* AND stripe_subscription_id IS NULL ORDER BY created_at DESC LIMIT 1
UnlinkedSubscriptionProject(P, customer) ==
  LET S == {p \in DOMAIN P : /\ P[p].customer_id = customer
                             /\ P[p].is_subscription
                             /\ P[p].stripe_subscription_id = NULL}
  IN IF S = {} THEN NULL
     ELSE CHOOSE p \in S : \A q \in S : P[p].created_at >= P[q].created_at

\* The project a subscription-created event is attached to: the metadata's
\* project_id, else the fallback by billing email; NULL when the handler
\* returns without finding one.
CreatedProject(P, ev) ==
  IF ev.project_id # NULL THEN ev.project_id
  ELSE IF ev.email = NULL THEN NULL
  ELSE IF get_customer_by_email(ev.email) = NULL THEN NULL
  ELSE UnlinkedSubscriptionProject(P, get_customer_by_email(ev.email))

\* customer.subscription.created
handle_subscription_created(e) ==
  LET ev == CreatedEvents[e]
      pid == CreatedProject(projects, ev)
      customer == IF ev.email # NULL THEN get_customer_by_email(ev.email) ELSE NULL
  IN IF pid = NULL
     THEN UNCHANGED <<projects, payments>>
     ELSE /\ projects' = update_project(projects, pid,
                           [stripe_subscription_id |-> ev.id,
                            subscription_status |-> "active",
                            next_payment_date |-> ev.current_period_end])
          /\ payments' =
               IF ev.latest_invoice # NULL /\ customer # NULL
               THEN create_payment(payments,
                      PaymentRow(customer, pid, NULL, NULL, NULL, ev.id,
                                 ev.unit_amount, "subscription", "succeeded", NULL,
                                 <<"created", e>>))
               ELSE payments

SubscriptionCreated ==
  \E e \in CreatedIds :
    /\ Request(<<"created", e>>)
    /\ handle_subscription_created(e)
    /\ resp' = 200
    /\ calls' = {}
    /\ UNCHANGED <<milestones, links, now, backfilled>>

\* Outcomes of send_cancellation_notification_webhook: the mail is sent, the
\* mail service raises, or the function returns without sending (no API key,
\* no customer).
MailResults == {"sent", "error", "not_sent"}

\* send_cancellation_notification_webhook: it reads the project row P as
\* committed when it is called, and catches whatever the sending raises.
send_cancellation_notification_webhook(P, pid, m) ==
  {<<"notify", pid, m, P[pid].subscription_status>>}

\* A handler that rolls the cancellation back when the notification fails.
handle_subscription_cancelled_NeedsMail(sub, m) ==
  LET pid == ProjectBySubscription(projects, sub)
  IN IF pid = NULL \/ m = "error"
     THEN calls' = {} /\ UNCHANGED projects
     ELSE /\ projects' = update_project(projects, pid,
                           [subscription_status |-> "cancelled",
                            status |-> "cancelled",
                            next_payment_date |-> NULL])
          /\ calls' = send_cancellation_notification_webhook(projects', pid, m)

\* customer.subscription.deleted
handle_subscription_cancelled(sub, m) ==
  LET pid == ProjectBySubscription(projects, sub)
  IN IF pid = NULL THEN calls' = {} /\ UNCHANGED projects
     ELSE /\ projects' = update_project(projects, pid,
                           [subscription_status |-> "cancelled",
                            status |-> "cancelled",
                            next_payment_date |-> NULL])
          /\ calls' = send_cancellation_notification_webhook(projects', pid, m)

\* The notification is sent only when the subscription has a project.
SubscriptionDeleted ==
  \E sub \in DeletedSubs :
  \E m \in IF ProjectBySubscription(projects, sub) = NULL
           THEN {"not_sent"} ELSE MailResults :
    /\ Request(<<"deleted", sub>>)
    /\ handle_subscription_cancelled(sub, m)
    /\ resp' = 200
    /\ UNCHANGED <<milestones, payments, links, now, backfilled>>

\* An update_data that names next_payment_date only when the event carries a
\* period end.
UpdateData_SkipsEmpty(u) ==
  IF u.status = "canceled"
  THEN [next_payment_date |-> NULL,
        subscription_status |-> "cancelled",
        status |-> "cancelled"]
  ELSE IF u.current_period_end = NULL
  THEN IF u.status = "active"
       THEN [subscription_status |->
               IF u.cancel_at_period_end THEN "cancel_pending" ELSE "active"]
       ELSE IF u.status = "past_due"
       THEN [subscription_status |-> "past_due"]
       ELSE [email |-> NULL]
  ELSE IF u.status = "active"
  THEN [next_payment_date |-> u.current_period_end,
        subscription_status |->
          IF u.cancel_at_period_end THEN "cancel_pending" ELSE "active"]
  ELSE IF u.status = "past_due"
  THEN [next_payment_date |-> u.current_period_end,
        subscription_status |-> "past_due"]
  ELSE [next_payment_date |-> u.current_period_end]

\* An update_data that keeps the event's period end for a canceled
\* subscription.
UpdateData_KeepsDate(u) ==
  IF u.status = "active"
  THEN [next_payment_date |-> u.current_period_end,
        subscription_status |->
          IF u.cancel_at_period_end THEN "cancel_pending" ELSE "active"]
  ELSE IF u.status = "canceled"
  THEN [next_payment_date |-> u.current_period_end,
        subscription_status |-> "cancelled",
        status |-> "cancelled"]
  ELSE IF u.status = "past_due"
  THEN [next_payment_date |-> u.current_period_end,
        subscription_status |-> "past_due"]
  ELSE [next_payment_date |-> u.current_period_end]

\* The update_data dictionary of handle_subscription_updated.
UpdateData(u) ==
  IF u.status = "active"
  THEN [next_payment_date |-> u.current_period_end,
        subscription_status |->
          IF u.cancel_at_period_end THEN "cancel_pending" ELSE "active"]
  ELSE IF u.status = "canceled"
  THEN [next_payment_date |-> NULL,
        subscription_status |-> "cancelled",
        status |-> "cancelled"]
  ELSE IF u.status = "past_due"
  THEN [next_payment_date |-> u.current_period_end,
        subscription_status |-> "past_due"]
  ELSE [next_payment_date |-> u.current_period_end]

\* customer.subscription.updated
handle_subscription_updated(u) ==
  LET pid == ProjectBySubscription(projects, u.id)
  IN IF pid = NULL THEN UNCHANGED projects
     ELSE projects' = update_project(projects, pid, UpdateData(u))

\* The request a subscription-updated delivery is recorded as.
UpdatedRequest(u) ==
  <<"updated", u.id, u.status,
    IF u.cancel_at_period_end THEN "at_period_end" ELSE "now",
    u.current_period_end>>

SubscriptionUpdated ==
  \E u \in UpdatedEvents :
    /\ Request(UpdatedRequest(u))
    /\ handle_subscription_updated(u)
    /\ resp' = 200
    /\ calls' = {}
    /\ UNCHANGED <<milestones, payments, links, now, backfilled>>

\* A handler that reactivates the subscription whatever the lookup answers.
handle_subscription_payment_succeeded_Reactivates(i, r) ==
  LET inv == Invoices[i]
      pid == ProjectBySubscription(projects, inv.subscription)
  IN IF pid = NULL
     THEN calls' = {} /\ UNCHANGED <<projects, payments>>
     ELSE /\ payments' = create_payment(payments,
                 PaymentRow(projects[pid].customer_id, pid, NULL, NULL, NULL,
                            inv.subscription, inv.amount_paid, "subscription",
                            "succeeded", NULL, <<"invoice_paid", i>>))
          /\ calls' = {<<"retrieve", inv.subscription, r>>}
          /\ projects' = IF r \in {"error", NULL}
                         THEN update_project(projects, pid,
                                [subscription_status |-> "active"])
                         ELSE update_project(projects, pid,
                                [next_payment_date |-> r,
                                 subscription_status |-> "active"])

\* invoice.payment_succeeded; r is what stripe.Subscription.retrieve answers.
handle_subscription_payment_succeeded(i, r) ==
  LET inv == Invoices[i]
      pid == ProjectBySubscription(projects, inv.subscription)
  IN IF pid = NULL
     THEN calls' = {} /\ UNCHANGED <<projects, payments>>
     ELSE /\ payments' = create_payment(payments,
                 PaymentRow(projects[pid].customer_id, pid, NULL, NULL, NULL,
                            inv.subscription, inv.amount_paid, "subscription",
                            "succeeded", NULL, <<"invoice_paid", i>>))
          /\ calls' = {<<"retrieve", inv.subscription, r>>}
          /\ projects' = IF r \in {"error", NULL} THEN projects
                         ELSE update_project(projects, pid,
                                [next_payment_date |-> r,
                                 subscription_status |-> "active"])

\* The processor is asked only when the invoice's subscription has a project.
InvoicePaymentSucceeded ==
  \E i \in InvoiceIds :
  \E r \in IF /\ Invoices[i].subscription # NULL
              /\ ProjectBySubscription(projects, Invoices[i].subscription) # NULL
           THEN RetrieveResults ELSE {"error"} :
    /\ Request(<<"invoice_paid", i>>)
    /\ IF Invoices[i].subscription # NULL
       THEN handle_subscription_payment_succeeded(i, r)
       ELSE calls' = {} /\ UNCHANGED <<projects, payments>>
    /\ resp' = 200
    /\ UNCHANGED <<milestones, links, now, backfilled>>

\* invoice.payment_failed
handle_subscription_payment_failed(i) ==
  LET inv == Invoices[i]
      pid == ProjectBySubscription(projects, inv.subscription)
  IN IF pid = NULL
     THEN UNCHANGED <<projects, payments>>
     ELSE /\ payments' = create_payment(payments,
                 PaymentRow(projects[pid].customer_id, pid, NULL, NULL, NULL,
                            inv.subscription, inv.amount_due, "subscription",
                            "failed", NULL, <<"invoice_failed", i>>))
          /\ projects' = update_project(projects, pid,
                           [subscription_status |-> "past_due"])

InvoicePaymentFailed ==
  \E i \in InvoiceIds :
    /\ Request(<<"invoice_failed", i>>)
    /\ IF Invoices[i].subscription # NULL
       THEN handle_subscription_payment_failed(i)
       ELSE UNCHANGED <<projects, payments>>
    /\ resp' = 200
    /\ calls' = {}
    /\ UNCHANGED <<milestones, links, now, backfilled>>

(***************************************************************************)
(* customers_blueprint.py: the customer's subscription routes              *)
(***************************************************************************)

\* An ownership check that only asks whether the project exists.
InvalidProject_OnlyMissing(P, pid, customer_id) == pid \notin DOMAIN P

\* The routes' ownership check: "not project or project['customer_id'] !=
\* customer_id".
InvalidProject(P, pid, customer_id) ==
  pid \notin DOMAIN P \/ P[pid].customer_id # customer_id

\* confirm_manual_payment with a slip: the customer's claim is booked as
\* money received.
confirm_manual_payment_Books(f) ==
  IF InvalidProject(projects, f.project_id, f.customer_id)
  THEN UNCHANGED projects
  ELSE IF f.payment_method \notin {"venmo", "cashapp", "zelle"}
  THEN UNCHANGED projects
  ELSE projects' = update_project_paid_amount(
                     update_project(projects, f.project_id,
                       [payment_method_type |-> "manual",
                        subscription_status |-> "pending"]),
                     f.project_id, 30)

\* POST /customers/subscription/<project_id>/confirm-manual-payment
confirm_manual_payment(f) ==
  IF InvalidProject(projects, f.project_id, f.customer_id)
  THEN UNCHANGED projects
  ELSE IF f.payment_method \notin {"venmo", "cashapp", "zelle"}
  THEN UNCHANGED projects
  ELSE projects' = update_project(projects, f.project_id,
                     [payment_method_type |-> "manual",
                      subscription_status |-> "pending"])

ConfirmManualPayment ==
  \E f \in ConfirmForms :
    /\ Request(<<"confirm_manual", f.customer_id, f.project_id, f.payment_method>>)
    /\ confirm_manual_payment(f)
    /\ resp' = 302
    /\ calls' = {}
    /\ UNCHANGED <<milestones, payments, links, now, backfilled>>

\* A cancel_subscription that marks the project before the processor
\* answered.
cancel_subscription_Eager(f, r) ==
  IF InvalidProject(projects, f.project_id, f.customer_id)
  THEN calls' = {} /\ UNCHANGED projects
  ELSE IF projects[f.project_id].stripe_subscription_id = NULL
  THEN calls' = {} /\ UNCHANGED projects
  ELSE /\ calls' = {<<"modify", projects[f.project_id].stripe_subscription_id, r>>}
       /\ projects' = update_project(projects, f.project_id,
                         [subscription_status |-> "cancel_pending"])

\* POST /customers/subscription/<project_id>/cancel; r is what
\* stripe.Subscription.modify answers.
cancel_subscription(f, r) ==
  IF InvalidProject(projects, f.project_id, f.customer_id)
  THEN calls' = {} /\ UNCHANGED projects
  ELSE IF projects[f.project_id].stripe_subscription_id = NULL
  THEN calls' = {} /\ UNCHANGED projects
  ELSE /\ calls' = {<<"modify", projects[f.project_id].stripe_subscription_id, r>>}
       /\ projects' = IF r = "ok"
                      THEN update_project(projects, f.project_id,
                             [subscription_status |-> "cancel_pending"])
                      ELSE projects

\* The processor is asked only for the customer's own, linked project.
CancelSubscription ==
  \E f \in CancelForms :
  \E r \in IF InvalidProject(projects, f.project_id, f.customer_id)
           THEN {"error"}
           ELSE IF projects[f.project_id].stripe_subscription_id = NULL
           THEN {"error"} ELSE ModifyResults :
    /\ Request(<<"cancel", f.customer_id, f.project_id>>)
    /\ cancel_subscription(f, r)
    /\ resp' = 302
    /\ UNCHANGED <<milestones, payments, links, now, backfilled>>

\* POST /customers/subscription/<project_id>/switch-to-manual
switch_to_manual(f) ==
  IF InvalidProject(projects, f.project_id, f.customer_id)
  THEN UNCHANGED projects
  ELSE IF ~projects[f.project_id].is_subscription
  THEN UNCHANGED projects
  ELSE projects' = update_project(projects, f.project_id,
                     [payment_method_type |-> "manual"])

SwitchToManual ==
  \E f \in SwitchForms :
    /\ Request(<<"switch_to_manual", f.customer_id, f.project_id>>)
    /\ switch_to_manual(f)
    /\ resp' = 302
    /\ calls' = {}
    /\ UNCHANGED <<milestones, payments, links, now, backfilled>>

\* POST /customers/create-checkout-session; r is what
\* stripe.checkout.Session.create answers. The route writes nothing; an
\* invalid project or milestone is answered before the processor is called.
create_checkout_session(f, r) ==
  IF InvalidProject(projects, f.project_id, f.customer_id)
  THEN calls' = {} /\ resp' = 302
  ELSE IF /\ ~projects[f.project_id].is_subscription
          /\ f.milestone_id # NULL
          /\ \/ f.milestone_id \notin DOMAIN milestones
             \/ milestones[f.milestone_id].project_id # f.project_id
  THEN calls' = {} /\ resp' = 302
  ELSE IF /\ projects[f.project_id].is_subscription
          /\ projects[f.project_id].stripe_price_id = NULL
  THEN calls' = {} /\ resp' = 302
  ELSE /\ calls' = {<<"session_create", f.project_id,
                      IF projects[f.project_id].is_subscription
                      THEN "subscription" ELSE "payment", r>>}
       /\ resp' = IF r = "ok" THEN 303 ELSE 302

\* The processor is asked only for the customer's own project.
CreateCheckoutSession ==
  \E f \in CheckoutForms :
  \E r \in IF InvalidProject(projects, f.project_id, f.customer_id)
           THEN {"error"} ELSE SessionCreateResults :
    /\ Request(<<"create_checkout", f.customer_id, f.project_id>>)
    /\ create_checkout_session(f, r)
    /\ UNCHANGED <<db, now, backfilled>>

\* POST /admin/projects/<project_id>/subscription, action
\* switch_payment_method; the route first looks the subscription up at the
\* processor.
switch_payment_method(f) ==
  /\ calls' = IF projects[f.project_id].stripe_subscription_id # NULL
              THEN {<<"retrieve", projects[f.project_id].stripe_subscription_id,
                      "ignored">>}
              ELSE {}
  /\ IF f.new_payment_method_type \notin {"stripe", "manual", "both"}
     THEN UNCHANGED projects
     ELSE projects' = update_project(projects, f.project_id,
                        [payment_method_type |-> f.new_payment_method_type])

AdminSwitchPaymentMethod ==
  \E f \in AdminSwitchForms :
    /\ Request(<<"switch_payment_method", f.project_id, f.new_payment_method_type>>)
    /\ switch_payment_method(f)
    /\ resp' = 302
    /\ UNCHANGED <<milestones, payments, links, now, backfilled>>

\* SELECT ... FROM projects WHERE is_subscription = 1 AND
\* subscription_status = 'active' AND stripe_subscription_id IS NOT NULL
get_active_subscription_projects(P) ==
  {p \in DOMAIN P : /\ P[p].is_subscription
                    /\ P[p].subscription_status = "active"
                    /\ P[p].stripe_subscription_id # NULL}

\* BackfillTargets with a slip: projects that have a date are queried too.
BackfillTargets_Unfiltered(P) == get_active_subscription_projects(P)

\* The projects of the sweep that pass "not project['next_payment_date'] and
\* project['stripe_subscription_id']".
BackfillTargets(P) ==
  {p \in get_active_subscription_projects(P) : P[p].next_payment_date = NULL}

\* backfill_subscription_payment_dates with a slip: one failing query ends
\* the sweep with nothing repaired.
backfill_subscription_payment_dates_Aborts(rr) ==
  /\ calls' = {<<"retrieve", projects[p].stripe_subscription_id, rr[p], p>> :
                 p \in BackfillTargets(projects)}
  /\ projects' =
       [p \in DOMAIN projects |->
          IF /\ p \in BackfillTargets(projects)
             /\ \A q \in BackfillTargets(projects) : rr[q] # "error"
             /\ rr[p] # NULL
          THEN update_project(projects, p, [next_payment_date |-> rr[p]])[p]
          ELSE projects[p]]

\* backfill_subscription_payment_dates; rr[p] is what
\* stripe.Subscription.retrieve answers for project p's subscription: "error"
\* (it raises, caught per project), NULL (no current_period_end) or the
\* period end. A call is noted with the project it was made for.
backfill_subscription_payment_dates(rr) ==
  /\ calls' = {<<"retrieve", projects[p].stripe_subscription_id, rr[p], p>> :
                 p \in BackfillTargets(projects)}
  /\ projects' =
       [p \in DOMAIN projects |->
          IF p \in BackfillTargets(projects) /\ rr[p] \notin {"error", NULL}
          THEN update_project(projects, p, [next_payment_date |-> rr[p]])[p]
          ELSE projects[p]]

\* The browser sessions a dashboard request comes from: the customer's
\* session the model follows, or one that holds no flag yet.
BrowserSessions == {"same", "new"}

\* GET /customers/dashboard: the sweep runs unless the session holds
\* 'payment_dates_backfilled', which is set once the sweep returned.
Dashboard ==
  \E session \in BrowserSessions :
    /\ Request(<<"dashboard", session>>)
    /\ IF session = "same" /\ backfilled
       THEN /\ calls' = {}
            /\ UNCHANGED projects
       ELSE \E rr \in [BackfillTargets(projects) -> RetrieveResults] :
              backfill_subscription_payment_dates(rr)
    /\ backfilled' = IF session = "same" THEN TRUE ELSE backfilled
    /\ resp' = 200
    /\ UNCHANGED <<milestones, payments, links, now>>

(***************************************************************************)
(* admin_blueprint.py                                                      *)
(***************************************************************************)

\* float(payment_amount_str), in cents; a string outside the table raises
\* ValueError.
FloatTable == ("0.30" :> 30) @@ ("-0.30" :> -30)

\* datetime.strptime(s, '%Y-%m-%d') succeeds.
IsDate(s) == s \in {"2026-03-01"}

\* ManualFormValid with a slip: the dates are not parsed before the Payment
\* is created.
ManualFormValid_DatesUnchecked(f) ==
  /\ f.payment_amount # ""
  /\ f.payment_method # ""
  /\ f.payment_method \in {"venmo", "cashapp", "zelle"}
  /\ f.payment_amount \in DOMAIN FloatTable

\* The record_manual_payment form passes the route's validation.
ManualFormValid(f) ==
  /\ f.payment_amount # ""
  /\ f.payment_method # ""
  /\ f.payment_method \in {"venmo", "cashapp", "zelle"}
  /\ f.payment_amount \in DOMAIN FloatTable
  /\ f.payment_date # "" => IsDate(f.payment_date)
  /\ f.next_payment_date_manual # "" => IsDate(f.next_payment_date_manual)

\* f'manual_{project_id}_{int(datetime.now().timestamp())}'
ManualReference(pid, t) == "manual_" \o pid \o "_" \o ToString(t)

\* The Payment row of a recorded manual payment.
ManualPayment(f, t) ==
  PaymentRow(projects[f.project_id].customer_id, f.project_id, NULL,
             ManualReference(f.project_id, t), NULL, NULL,
             FloatTable[f.payment_amount], "subscription", "succeeded",
             f.payment_method, <<"record_manual", f.project_id, ToString(t)>>)

\* POST /admin/projects/<project_id>/subscription, action
\* record_manual_payment, at clock second t.
record_manual_payment(f, t) ==
  IF f.project_id \notin DOMAIN projects
  THEN /\ resp' = 302
       /\ calls' = {}
       /\ UNCHANGED <<projects, payments>>
  ELSE /\ calls' = IF projects[f.project_id].stripe_subscription_id # NULL
                   THEN {<<"retrieve", projects[f.project_id].stripe_subscription_id,
                           "ignored">>}
                   ELSE {}
       /\ IF ~ManualFormValid(f)
          THEN /\ resp' = 302
               /\ UNCHANGED <<projects, payments>>
          ELSE IF IntegrityError(payments, ManualPayment(f, t))
          THEN /\ resp' = 500
               /\ UNCHANGED <<projects, payments>>
          ELSE /\ payments' = create_payment(payments, ManualPayment(f, t))
               /\ projects' =
                    LET paid == update_project_paid_amount(projects, f.project_id,
                                  FloatTable[f.payment_amount])
                    IN IF f.next_payment_date_manual # ""
                       THEN update_project(paid, f.project_id,
                              [next_payment_date |-> f.next_payment_date_manual])
                       ELSE paid
               /\ resp' = 302

\* POST /admin/milestones/<milestone_id>/complete: an unknown milestone is
\* answered "not found", a known one is marked complete whatever its status.
complete_milestone(mid) ==
  IF mid \notin DOMAIN milestones THEN UNCHANGED milestones
  ELSE milestones' = mark_milestone_complete(milestones, mid)

AdminCompleteMilestone ==
  \E mid \in CompleteIds :
    /\ Request(<<"complete_milestone", mid>>)
    /\ complete_milestone(mid)
    /\ resp' = 302
    /\ calls' = {}
    /\ UNCHANGED <<projects, payments, links, now, backfilled>>

\* The request a posted record_manual_payment form is recorded as.
ManualRequest(f) ==
  <<"record_manual", f.project_id, f.payment_method, f.payment_amount,
    f.payment_date, f.next_payment_date_manual>>

\* The clock second of the request: the second of the request before it or
\* the next one (for a form that is rejected the clock is read by nothing).
RecordManualPayment ==
  \E f \in ManualForms :
  \E t \in IF ManualFormValid(f) THEN {now, now + 1} ELSE {now} :
    /\ Request(ManualRequest(f))
    /\ now' = t
    /\ record_manual_payment(f, t)
    /\ UNCHANGED <<milestones, links, backfilled>>

\* POST /admin/projects/<project_id>/edit: the form's status is written
\* (its other fields are posted back as they were).
edit_project(f) ==
  IF f.project_id \notin DOMAIN projects THEN UNCHANGED projects
  ELSE projects' = update_project(projects, f.project_id,
                     [status |-> f.status,
                      is_subscription |-> projects[f.project_id].is_subscription,
                      email |-> NULL,
                      payment_method_type |->
                        IF projects[f.project_id].is_subscription
                        THEN projects[f.project_id].payment_method_type
                        ELSE "stripe"])

AdminEditProject ==
  \E f \in EditForms :
    /\ Request(<<"edit_project", f.project_id, f.status>>)
    /\ edit_project(f)
    /\ resp' = 302
    /\ calls' = {}
    /\ UNCHANGED <<milestones, payments, links, now, backfilled>>

(***************************************************************************)
(* Concurrent requests.  Every customers_db call opens its own connection  *)
(* and commits: a handler is a sequence of separately committed steps, and *)
(* the steps of requests served at the same time interleave.               *)
(***************************************************************************)

\* The webhook is delivered twice with one checkout session while the admin
\* posts a record_manual_payment form.
ConcInit ==
  /\ InitLedger
  /\ sess \in SessionIds
  /\ pc = [w \in Workers |-> "start"]
  /\ found = [w \in Deliveries |-> NULL]
  /\ wresp = [w \in Workers |-> 0]

\* The form the concurrent admin request posts.
ConcForm ==
  [project_id |-> "p1", payment_amount |-> "0.30", payment_method |-> "venmo",
   payment_date |-> "", next_payment_date_manual |-> ""]

\* The request ends and answers with HTTP status st.
Answer(w, st) ==
  /\ pc' = [pc EXCEPT ![w] = "done"]
  /\ wresp' = [wresp EXCEPT ![w] = st]
  /\ UNCHANGED agree

Goto(w, l) ==
  /\ pc' = [pc EXCEPT ![w] = l]
  /\ UNCHANGED <<wresp, agree>>

\* handle_successful_payment up to its first ledger call: the metadata and
\* mode checks.
DeliverStart ==
  \E w \in Deliveries :
    LET cs == CheckoutSessions[sess]
    IN /\ pc[w] = "start"
       /\ IF MissingMetadata(cs)
          THEN Answer(w, 200)
          ELSE IF cs.mode = "subscription"
          THEN IF cs.subscription # NULL THEN Goto(w, "link_sub") ELSE Answer(w, 200)
          ELSE Goto(w, "insert")
       /\ UNCHANGED <<db, hist, sess, found>>

\* customers_db.update_project of a subscription checkout.
DeliverLinkSubscription ==
  \E w \in Deliveries :
    LET cs == CheckoutSessions[sess]
    IN /\ pc[w] = "link_sub"
       /\ projects' = update_project(projects, cs.project_id,
                        [stripe_subscription_id |-> cs.subscription,
                         subscription_status |-> "active"])
       /\ Answer(w, 200)
       /\ UNCHANGED <<milestones, payments, links, hist, sess, found>>

\* customers_db.create_payment; an IntegrityError is caught by the handler's
\* "except Exception", which ends the handler.
DeliverInsert ==
  \E w \in Deliveries :
    /\ pc[w] = "insert"
    /\ IF IntegrityError(payments, CheckoutPayment(sess))
       THEN /\ Answer(w, 200)
            /\ UNCHANGED payments
       ELSE /\ payments' = create_payment(payments, CheckoutPayment(sess))
            /\ Goto(w, "paid")
    /\ UNCHANGED <<projects, milestones, links, hist, sess, found>>

\* customers_db.update_project_paid_amount
DeliverPaid ==
  \E w \in Deliveries :
    LET cs == CheckoutSessions[sess]
    IN /\ pc[w] = "paid"
       /\ projects' = update_project_paid_amount(projects, cs.project_id,
                                                 cs.amount_total)
       /\ Goto(w, "milestone")
       /\ UNCHANGED <<milestones, payments, links, hist, sess, found>>

\* mark_milestone_complete(milestone_id), or get_milestones_by_project and
\* the search for the matching payment milestone.
DeliverMilestone ==
  \E w \in Deliveries :
    LET cs == CheckoutSessions[sess]
        hit == MatchingMilestone(milestones, cs.project_id, cs.amount_total)
    IN /\ pc[w] = "milestone"
       /\ IF cs.milestone_id # NULL
          THEN /\ milestones' = mark_milestone_complete(milestones, cs.milestone_id)
               /\ Goto(w, "get_link")
               /\ UNCHANGED found
          ELSE /\ found' = [found EXCEPT ![w] = hit]
               /\ Goto(w, IF hit = NULL THEN "get_link" ELSE "mark_ms")
               /\ UNCHANGED milestones
       /\ UNCHANGED <<projects, payments, links, hist, sess>>

\* mark_milestone_complete(milestone['id']) of the milestone found.
DeliverMarkMilestone ==
  \E w \in Deliveries :
    /\ pc[w] = "mark_ms"
    /\ milestones' = mark_milestone_complete(milestones, found[w])
    /\ Goto(w, "get_link")
    /\ UNCHANGED <<projects, payments, links, hist, sess, found>>

\* customers_db.get_payment_link_by_session_id
DeliverGetLink ==
  \E w \in Deliveries :
    /\ pc[w] = "get_link"
    /\ IF get_payment_link_by_session_id(links, sess)
       THEN Goto(w, "mark_link") ELSE Answer(w, 200)
    /\ UNCHANGED <<db, hist, sess, found>>

\* customers_db.mark_payment_link_used
DeliverMarkLink ==
  \E w \in Deliveries :
    /\ pc[w] = "mark_link"
    /\ links' = mark_payment_link_used(links, sess)
    /\ Answer(w, 200)
    /\ UNCHANGED <<projects, milestones, payments, hist, sess, found>>

\* The admin's record_manual_payment: validation and create_payment (an
\* IntegrityError is not caught by the route).
AdminInsert ==
  /\ pc["adm"] = "start"
  /\ IF ~ManualFormValid(ConcForm)
     THEN /\ Answer("adm", 302)
          /\ UNCHANGED payments
     ELSE IF IntegrityError(payments, ManualPayment(ConcForm, now))
     THEN /\ Answer("adm", 500)
          /\ UNCHANGED payments
     ELSE /\ payments' = create_payment(payments, ManualPayment(ConcForm, now))
          /\ Goto("adm", "paid")
  /\ UNCHANGED <<projects, milestones, links, hist, sess, found>>

\* The admin's update_project_paid_amount; no next payment date was posted.
AdminPaid ==
  /\ pc["adm"] = "paid"
  /\ projects' = update_project_paid_amount(projects, ConcForm.project_id,
                                            FloatTable[ConcForm.payment_amount])
  /\ Answer("adm", 302)
  /\ UNCHANGED <<milestones, payments, links, hist, sess, found>>

ConcNext ==
  \/ DeliverStart
  \/ DeliverLinkSubscription
  \/ DeliverInsert
  \/ DeliverPaid
  \/ DeliverMilestone
  \/ DeliverMarkMilestone
  \/ DeliverGetLink
  \/ DeliverMarkLink
  \/ AdminInsert
  \/ AdminPaid

ConcSpec == ConcInit /\ [][ConcNext]_vars

\* The ledger calls of handle_successful_payment, by the place of the
\* delivery that is about to make them.
LedgerCalls ==
  {"link_sub", "insert", "paid", "milestone", "mark_ms", "get_link", "mark_link"}

\* A ledger call of a delivery raises (sqlite3.OperationalError, say
\* "database is locked"): the call commits nothing, the handler's
\* "except Exception" prints the error and returns, and stripe_webhook
\* answers 200 as after every event.
DeliverStorageError ==
  \E w \in Deliveries :
    /\ pc[w] \in LedgerCalls
    /\ pc' = [pc EXCEPT ![w] = "failed"]
    /\ wresp' = [wresp EXCEPT ![w] = 200]
    /\ UNCHANGED <<db, hist, sess, found, agree>>

FaultNext ==
  \/ ConcNext
  \/ DeliverStorageError

\* The concurrent requests, with storage errors.
FaultSpec == ConcInit /\ [][FaultNext]_vars

(***************************************************************************)
(* Agreements: customers_db.create_agreement and the customer's sign       *)
(* route. sqlite3 opens the write transaction at the first UPDATE or       *)
(* INSERT of a connection, not at a SELECT, and SQLite admits one writer   *)
(* at a time: a read is one step, and the writes of one connection up to   *)
(* its commit are one step.                                                *)
(***************************************************************************)

\* Projects for which agreements are created.
AgreementProjects == {"p1", "p2"}

\* POSTs of the sign form: the typed name and the agree_terms checkbox.
SignForms ==
  [signature_name : {"n1", "n2", ""}, agree_terms : BOOLEAN]

\* SELECT MAX(version) FROM project_agreements WHERE project_id = ? (0 for
\* "or 0").
MaxVersion(A, p) ==
  LET V == {A[i].version : i \in {j \in 1..Len(A) : A[j].project_id = p}}
  IN IF V = {} THEN 0 ELSE CHOOSE v \in V : \A u \in V : u <= v

\* A create_agreement whose UPDATE supersedes nothing.
Supersede_Keeps(A, p) == A

\* UPDATE project_agreements SET is_active = 0 WHERE project_id = ? AND
\* is_active = 1
Supersede(A, p) ==
  [i \in 1..Len(A) |->
     IF A[i].project_id = p /\ A[i].is_active
     THEN [A[i] EXCEPT !.is_active = FALSE] ELSE A[i]]

\* create_agreement, first statement: the SELECT of the highest version.
CreateSelectMax ==
  \E a \in Creators, p \in AgreementProjects :
    /\ apc[a] = "idle"
    /\ Len(agreements) + Cardinality({b \in Creators : apc[b] = "write"})
         < MaxAgreements
    /\ alocal' = [alocal EXCEPT ![a] =
                    [project_id |-> p,
                     new_version |-> MaxVersion(agreements, p) + 1]]
    /\ apc' = [apc EXCEPT ![a] = "write"]
    /\ UNCHANGED <<db, hist, conc, agreements, signatures>>

\* create_agreement, the write transaction: the UPDATE that supersedes the
\* active agreements of the project, the INSERT of the new one, the commit.
CreateWrite ==
  \E a \in Creators :
    /\ apc[a] = "write"
    /\ agreements' = Append(Supersede(agreements, alocal[a].project_id),
                            [project_id |-> alocal[a].project_id,
                             version |-> alocal[a].new_version,
                             is_active |-> TRUE])
    /\ apc' = [apc EXCEPT ![a] = "idle"]
    /\ alocal' = [alocal EXCEPT ![a] = NULL]
    /\ UNCHANGED <<db, hist, conc, signatures>>

\* The sign request ends; how is kept as its place.
SignEnd(s, how) ==
  /\ apc' = [apc EXCEPT ![s] = how]
  /\ UNCHANGED alocal

\* sign_agreement_route: get_agreement_by_id and the checks on its row
\* ("not found", "no permission"); the row is kept for the later
\* is_active check.
SignGetAgreement ==
  \E s \in Signers, aid \in 1..MaxAgreements, c \in CustomerIds, f \in SignForms :
    /\ apc[s] = "idle"
    /\ IF aid > Len(agreements)
       THEN SignEnd(s, "not_found")
       ELSE IF projects[agreements[aid].project_id].customer_id # c
       THEN SignEnd(s, "forbidden")
       ELSE /\ apc' = [apc EXCEPT ![s] = "get_signature"]
            /\ alocal' = [alocal EXCEPT ![s] =
                            [agreement_id |-> aid, customer_id |-> c,
                             is_active |-> agreements[aid].is_active,
                             signature_name |-> f.signature_name,
                             agree_terms |-> f.agree_terms]]
    /\ UNCHANGED <<db, hist, conc, agreements, signatures>>

\* A lookup that never finds the stored signature.
get_agreement_signature_Blind(S, aid, c) == {}

\* SELECT ... FROM agreement_signatures WHERE agreement_id = ? AND
\* customer_id = ?
get_agreement_signature(S, aid, c) ==
  {i \in 1..Len(S) : S[i].agreement_id = aid /\ S[i].customer_id = c}

\* sign_agreement_route: get_agreement_signature ("already signed"), the
\* is_active check and the checks of the posted form.
SignGetSignature ==
  \E s \in Signers :
    LET l == alocal[s]
    IN /\ apc[s] = "get_signature"
       /\ IF get_agreement_signature(signatures, l.agreement_id, l.customer_id) # {}
          THEN SignEnd(s, "already")
          ELSE IF ~l.is_active
          THEN SignEnd(s, "inactive")
          ELSE IF l.signature_name = "" \/ ~l.agree_terms
          THEN SignEnd(s, "invalid")
          ELSE /\ apc' = [apc EXCEPT ![s] = "check"]
               /\ UNCHANGED alocal
       /\ UNCHANGED <<db, hist, conc, agreements, signatures>>

\* customers_db.sign_agreement, the SELECT: "already signed" returns None.
SignCheck ==
  \E s \in Signers :
    LET l == alocal[s]
    IN /\ apc[s] = "check"
       /\ IF get_agreement_signature(signatures, l.agreement_id, l.customer_id) # {}
          THEN SignEnd(s, "none")
          ELSE /\ apc' = [apc EXCEPT ![s] = "insert"]
               /\ UNCHANGED alocal
       /\ UNCHANGED <<db, hist, conc, agreements, signatures>>

\* customers_db.sign_agreement, the INSERT and commit: UNIQUE(agreement_id,
\* customer_id) raises IntegrityError, which nothing catches.
SignInsert ==
  \E s \in Signers :
    LET l == alocal[s]
    IN /\ apc[s] = "insert"
       /\ IF get_agreement_signature(signatures, l.agreement_id, l.customer_id) # {}
          THEN /\ SignEnd(s, "error")
               /\ UNCHANGED signatures
          ELSE /\ signatures' = Append(signatures,
                                  [agreement_id |-> l.agreement_id,
                                   customer_id |-> l.customer_id,
                                   signature_name |-> l.signature_name])
               /\ SignEnd(s, "signed")
       /\ UNCHANGED <<db, hist, conc, agreements>>

AgreeNext ==
  \/ CreateSelectMax
  \/ CreateWrite
  \/ SignGetAgreement
  \/ SignGetSignature
  \/ SignCheck
  \/ SignInsert

\* The agreement requests, served concurrently.
AgreeSpec == Init /\ [][AgreeNext]_vars

Next ==
  \/ CheckoutCompleted
  \/ PaymentIntentEvent
  \/ SubscriptionCreated
  \/ SubscriptionDeleted
  \/ SubscriptionUpdated
  \/ InvoicePaymentSucceeded
  \/ InvoicePaymentFailed
  \/ ConfirmManualPayment
  \/ CancelSubscription
  \/ Dashboard
  \/ RecordManualPayment
  \/ AdminEditProject
  \/ AdminCompleteMilestone
  \/ SwitchToManual
  \/ CreateCheckoutSession
  \/ AdminSwitchPaymentMethod

Spec == Init /\ [][Next]_vars

(***************************************************************************)
(* Properties                                                              *)
(***************************************************************************)

\* Requests the payment processor originates (webhook deliveries).
ProcessorOps ==
  {"checkout", "payment_intent", "created", "deleted", "updated",
   "invoice_paid", "invoice_failed"}

\* A one-time checkout session that carries customer_id and project_id.
OneTimeWithMetadata(s) ==
  /\ CheckoutSessions[s].mode = "payment"
  /\ CheckoutSessions[s].customer_id # NULL
  /\ CheckoutSessions[s].project_id # NULL

\* The payments rows of a checkout session.
SessionPayments(Pay, s) ==
  {i \in 1..Len(Pay) : Pay[i].stripe_checkout_session_id = s}

RECURSIVE SumSucceededUpTo(_, _, _)
SumSucceededUpTo(Pay, pid, n) ==
  IF n = 0 THEN 0
  ELSE SumSucceededUpTo(Pay, pid, n - 1)
       + (IF Pay[n].project_id = pid /\ Pay[n].status = "succeeded"
          THEN Pay[n].amount ELSE 0)

\* The sum of the amounts of a project's succeeded Payments.
SumSucceeded(Pay, pid) == SumSucceededUpTo(Pay, pid, Len(Pay))

\* C1: applying the same one-time checkout-completed event (with customer_id
\* and project_id metadata, with or without a payment-intent id) a second
\* time in sequence is a no-op: the ledger keeps exactly one Payment row of
\* that session and amount_paid is not raised again.
C1_CheckoutReplayIsNoOp ==
  [][\A s \in SessionIds :
       (/\ OneTimeWithMetadata(s)
        /\ last = <<"checkout", s>>
        /\ last' = <<"checkout", s>>)
       => /\ payments' = payments
          /\ projects' = projects
          /\ Cardinality(SessionPayments(payments', s)) = 1]_vars

\* C2: when two deliveries of one one-time checkout.session.completed event
\* have run concurrently to their end, the ledger holds exactly one Payment
\* of the session, amount_paid was raised once, and both deliveries were
\* answered 200.
C2_ConcurrentDeliveriesOnePayment ==
  (/\ sess # NULL
   /\ \A w \in Deliveries : pc[w] = "done"
   /\ pc["adm"] = "start")
  => (OneTimeWithMetadata(sess)
      => /\ Cardinality(SessionPayments(payments, sess)) = 1
         /\ projects[CheckoutSessions[sess].project_id].amount_paid
              = CheckoutSessions[sess].amount_total
         /\ \A w \in Deliveries : wresp[w] = 200)

\* Each project's amount_paid equals the sum of the amounts of its succeeded
\* Payments.
Conserved(P, Pay) ==
  \A p \in ProjectIds : P[p].amount_paid = SumSucceeded(Pay, p)

\* C3: applying a checkout-completed, subscription-created, invoice-paid or
\* invoice-failed event, or the admin's record_manual_payment, to a ledger
\* where every project's amount_paid equals the sum of its succeeded
\* Payments leaves a ledger where it still does.
C3_Conservation ==
  [][(/\ last'[1] \in {"checkout", "created", "invoice_paid",
                        "invoice_failed", "record_manual"}
      /\ Conserved(projects, payments))
     => Conserved(projects', payments')]_vars

\* C4: no two succeeded Payments stem from the same checkout-completed or
\* invoice-paid event.
C4_OneSucceededPaymentPerEvent ==
  \A i, j \in 1..Len(payments) :
    (/\ i # j
     /\ payments[i].status = "succeeded"
     /\ payments[j].status = "succeeded"
     /\ payments[i].origin[1] \in {"checkout", "invoice_paid"})
    => payments[i].origin # payments[j].origin

\* The edges of the subscription-status state machine.
StatusEdges ==
  {<<"inactive", "active">>, <<"active", "past_due">>, <<"past_due", "active">>,
   <<"active", "cancel_pending">>, <<"past_due", "cancel_pending">>,
   <<"cancel_pending", "cancelled">>, <<"active", "cancelled">>,
   <<"active", "pending">>, <<"inactive", "pending">>, <<"pending", "active">>}

\* C5: every change of a project's subscription_status made by a webhook
\* handler, the customer's cancel or manual-payment confirmation, or the
\* admin's manual-payment recording follows an edge of the state machine.
C5_StatusFollowsEdges ==
  [][\A p \in ProjectIds :
       (/\ last'[1] \in ProcessorOps \cup {"cancel", "confirm_manual", "record_manual"}
        /\ projects'[p].subscription_status # projects[p].subscription_status)
       => <<projects[p].subscription_status, projects'[p].subscription_status>>
            \in StatusEdges]_vars

\* C6: once a project's subscription_status is cancelled, no
\* processor-originated event changes it.
C6_CancelledIsTerminal ==
  [][\A p \in ProjectIds :
       (/\ projects[p].subscription_status = "cancelled"
        /\ last'[1] \in ProcessorOps)
       => projects'[p].subscription_status = "cancelled"]_vars

\* C7: a subscription-updated event applied to a project the admin
\* cancelled keeps Project.status cancelled and does not set its
\* subscription_status to active.
C7_UpdatedKeepsCancelledAndInactive ==
  [][\A p \in ProjectIds :
       (/\ projects[p].status = "cancelled"
        /\ p \in admin_cancelled
        /\ last'[1] = "updated")
       => /\ projects'[p].status = "cancelled"
          /\ projects'[p].subscription_status = "active"
               => projects[p].subscription_status = "active"]_vars

C9_CreatedReplayIsNoOp ==
  [][\A e \in CreatedIds :
       (last = <<"created", e>> /\ last' = <<"created", e>>)
       => /\ projects' = projects
          /\ payments' = payments]_vars

\* The opening Payments of project p for subscription sub.
OpeningPayments(Pay, p, sub) ==
  {i \in 1..Len(Pay) : /\ Pay[i].project_id = p
                       /\ Pay[i].stripe_subscription_id = sub
                       /\ Pay[i].status = "succeeded"}

\* The subscription's checkout-completed event and its subscription-created
\* event are the first two requests, r1 then r2.
FirstTwo(r1, r2) == nops = 1 /\ last = r1 /\ last' = r2

\* C10: for a subscription checkout with metadata, once its
\* checkout-completed and its subscription-created event have both been
\* applied, in either order, the project is linked to the subscription,
\* active, and has exactly one opening Payment.
C10_EitherOrderLinksWithOnePayment ==
  [][\A s \in SessionIds, e \in CreatedIds :
       (/\ CheckoutSessions[s].mode = "subscription"
        /\ CheckoutSessions[s].customer_id # NULL
        /\ CheckoutSessions[s].project_id # NULL
        /\ CheckoutSessions[s].subscription = CreatedEvents[e].id
        /\ (FirstTwo(<<"checkout", s>>, <<"created", e>>)
            \/ FirstTwo(<<"created", e>>, <<"checkout", s>>)))
       => LET p == CheckoutSessions[s].project_id
              sub == CheckoutSessions[s].subscription
          IN /\ projects'[p].stripe_subscription_id = sub
             /\ projects'[p].subscription_status = "active"
             /\ Cardinality(OpeningPayments(payments', p, sub)) = 1]_vars

\* C11: for a project linked to a subscription, an invoice-payment-failed
\* event followed by an invoice-payment-succeeded event of that subscription
\* ends with subscription_status active, the failed Payment kept as it was
\* and one succeeded Payment added after it.
C11_FailedThenPaidEndsActive ==
  [][\A i, j \in InvoiceIds :
       LET sub == Invoices[i].subscription
           p == ProjectBySubscription(projects, sub)
       IN (/\ last = <<"invoice_failed", i>>
           /\ last' = <<"invoice_paid", j>>
           /\ sub # NULL
           /\ Invoices[j].subscription = sub
           /\ p # NULL)
          => /\ projects'[p].subscription_status = "active"
             /\ Len(payments) >= 1
             /\ payments[Len(payments)].status = "failed"
             /\ payments[Len(payments)].project_id = p
             /\ Len(payments') = Len(payments) + 1
             /\ SubSeq(payments', 1, Len(payments)) = payments
             /\ payments'[Len(payments')].status = "succeeded"
             /\ payments'[Len(payments')].project_id = p]_vars

\* C12: the admin's record_manual_payment with a valid amount and a method in
\* {venmo, cashapp, zelle} raises the project's amount_paid by exactly that
\* amount, inserts one succeeded Payment with that method, and calls the
\* payment processor not at all.
C12_ManualPaymentBooksWithoutProcessor ==
  [][\A f \in ManualForms :
       (/\ last' = ManualRequest(f)
        /\ ManualFormValid(f))
       => /\ projects'[f.project_id].amount_paid
               = projects[f.project_id].amount_paid + FloatTable[f.payment_amount]
          /\ Len(payments') = Len(payments) + 1
          /\ SubSeq(payments', 1, Len(payments)) = payments
          /\ payments'[Len(payments')].status = "succeeded"
          /\ payments'[Len(payments')].payment_method = f.payment_method
          /\ payments'[Len(payments')].amount = FloatTable[f.payment_amount]
          /\ calls' = {}]_vars

\* C13: no webhook event, record_manual_payment, customer confirmation or
\* backfill ever lowers a project's amount_paid.
C13_AmountPaidNeverDecreases ==
  [][\A p \in ProjectIds :
       last'[1] \in ProcessorOps \cup {"record_manual", "confirm_manual", "dashboard"}
       => projects'[p].amount_paid >= projects[p].amount_paid]_vars

\* C14: under webhook events a Payment whose status is succeeded keeps that
\* status, and a Payment whose status is failed keeps it too (it is never
\* reopened).
C14_SettledPaymentsKeepStatus ==
  [][\A i \in 1..Len(payments) :
       (/\ last'[1] \in ProcessorOps
        /\ payments[i].status \in {"succeeded", "failed"})
       => /\ i <= Len(payments')
          /\ payments'[i].status = payments[i].status]_vars

\* The Payments the admin's manual recording inserted for project p.
ManualPayments(Pay, p) ==
  {i \in 1..Len(Pay) : Pay[i].project_id = p /\ Pay[i].origin[1] = "record_manual"}

\* C15: every event is applied atomically, whether its handler ends normally
\* or fails at a step; in particular, once the deliveries of a one-time
\* checkout and the admin's request have ended, every committed Payment has
\* its amount_paid increment: amount_paid is the sum of the committed
\* Payments' amounts.
C15_EventsAreAtomic ==
  (/\ \A w \in Workers : pc[w] \in {"done", "failed"}
   /\ OneTimeWithMetadata(sess))
  => LET cs == CheckoutSessions[sess]
     IN projects[cs.project_id].amount_paid
          = Cardinality(SessionPayments(payments, sess)) * cs.amount_total
            + Cardinality(ManualPayments(payments, cs.project_id))
                * FloatTable[ConcForm.payment_amount]

\* C17: a delivery whose handler failed is answered with a non-2xx status
\* (so that the processor redelivers the event and its effect is applied).
C17_FailureAnswersNon2xx ==
  \A w \in Deliveries : pc[w] = "failed" => wresp[w] \notin 200..299

\* C16: when the admin's record_manual_payment and the deliveries of a
\* one-time checkout for the same project have run concurrently to their
\* end, in any interleaving, both Payments exist and no increment is lost:
\* amount_paid is the sum of the project's Payments, which for a checkout
\* with a payment-intent id is the initial 0 plus both amounts.
C16_NoLostUpdate ==
  (/\ \A w \in Workers : pc[w] = "done"
   /\ OneTimeWithMetadata(sess))
  => LET cs == CheckoutSessions[sess]
         p == cs.project_id
     IN /\ Cardinality(ManualPayments(payments, p)) = 1
        /\ SessionPayments(payments, sess) # {}
        /\ projects[p].amount_paid = SumSucceeded(payments, p)
        /\ cs.payment_intent # NULL
             => projects[p].amount_paid
                  = cs.amount_total + FloatTable[ConcForm.payment_amount]

\* Both requests have ended; the admin's Payment was inserted first and the
\* checkout's after it, and amount_paid holds both amounts.
C16_Witness ==
  /\ \A w \in Workers : pc[w] = "done"
  /\ sess = "cs_pi"
  /\ Len(payments) = 2
  /\ payments[1].origin[1] = "record_manual"
  /\ payments[2].stripe_checkout_session_id = "cs_pi"
  /\ projects["p1"].amount_paid = 130

\* The processor queries a sweep made for project p that were answered with
\* a billing-period end.
RepairedBy(C, p) ==
  {c \in C : /\ Len(c) = 4
             /\ c[1] = "retrieve"
             /\ c[4] = p
             /\ c[3] \notin {"error", NULL}}

\* The processor queries a sweep made for project p.
QueriesFor(C, p) == {c \in C : Len(c) = 4 /\ c[4] = p}

\* C18: a backfill run over an active subscription project with an external
\* subscription reference and no next_payment_date queries the processor for
\* it and sets next_payment_date to the billing-period end the processor
\* answers; a second backfill run right after that leaves the project as it
\* is and makes no processor query for it.
C18_BackfillThenNoOp ==
  [][\A p \in ProjectIds :
       /\ (/\ last'[1] = "dashboard"
           /\ ~(last'[2] = "same" /\ backfilled)
           /\ projects[p].is_subscription
           /\ projects[p].subscription_status = "active"
           /\ projects[p].stripe_subscription_id # NULL
           /\ projects[p].next_payment_date = NULL)
          => /\ Cardinality(QueriesFor(calls', p)) = 1
             /\ \A c \in RepairedBy(calls', p) :
                  /\ c[2] = projects[p].stripe_subscription_id
                  /\ projects'[p] = [projects[p] EXCEPT !.next_payment_date = c[3]]
       /\ (/\ last[1] = "dashboard"
           /\ last'[1] = "dashboard"
           /\ RepairedBy(calls, p) # {})
          => /\ projects'[p] = projects[p]
             /\ QueriesFor(calls', p) = {}]_vars

\* Project p2, linked by its checkout with no next payment date, was
\* repaired by a first sweep (the customer's session holds the flag) and a
\* second sweep, from another session, has just run without a query.
C18_Witness ==
  /\ nops = 3
  /\ last = <<"dashboard", "new">>
  /\ backfilled
  /\ calls = {}
  /\ projects["p2"].stripe_subscription_id = "sub_1"
  /\ projects["p2"].subscription_status = "active"
  /\ projects["p2"].next_payment_date = "d2"

\* The processor queries a sweep made for project p that raised.
FailedFor(C, p) == {c \in QueriesFor(C, p) : c[3] = "error"}

\* C19: in a backfill sweep a processor query that fails for one project
\* leaves that project unchanged, every other project of the sweep is still
\* queried and, when the processor answers a period end, repaired, and the
\* dashboard request that ran the sweep is answered 200.
C19_SweepSurvivesFailure ==
  [][(/\ last'[1] = "dashboard"
      /\ \E p \in ProjectIds : FailedFor(calls', p) # {})
     => /\ resp' = 200
        /\ \A p \in ProjectIds :
             /\ FailedFor(calls', p) # {} => projects'[p] = projects[p]
             /\ p \in BackfillTargets(projects) => QueriesFor(calls', p) # {}
             /\ \A c \in RepairedBy(calls', p) :
                  projects'[p].next_payment_date = c[3]]_vars

\* A sweep over p2 and p3 has just run: the query for p2 raised and p2 still
\* has no date, the query for p3 was answered and p3 has the date.
C19_Witness ==
  /\ last[1] = "dashboard"
  /\ resp = 200
  /\ FailedFor(calls, "p2") # {}
  /\ projects["p2"].next_payment_date = NULL
  /\ RepairedBy(calls, "p3") # {}
  /\ projects["p3"].next_payment_date = "d2"

\* C20: a checkout-completed event whose metadata lacks customer_id or
\* project_id is dropped: no Payment is created and no project, milestone
\* or payment link changes.
C20_MissingMetadataIsDropped ==
  [][\A s \in SessionIds :
       (/\ last' = <<"checkout", s>>
        /\ (CheckoutSessions[s].customer_id = NULL
            \/ CheckoutSessions[s].project_id = NULL))
       => /\ payments' = payments
          /\ projects' = projects
          /\ milestones' = milestones
          /\ links' = links]_vars

\* A checkout-completed event that names project p1 and no customer was just
\* applied to a ledger that already holds a Payment of p1: nothing was added.
C20_Witness ==
  /\ last = <<"checkout", "cs_nocust">>
  /\ nops = 2
  /\ Len(payments) = 1
  /\ payments[1].stripe_checkout_session_id = "cs_pi"
  /\ projects["p1"].amount_paid = 100

\* The subscription id a processor request r refers to (NULL: none).
RequestSubscription(r) ==
  IF r[1] \in {"deleted", "updated"} THEN r[2]
  ELSE IF r[1] \in {"invoice_paid", "invoice_failed"} THEN Invoices[r[2]].subscription
  ELSE NULL

\* C21: a subscription-cancelled, subscription-updated, invoice-paid or
\* invoice-failed event whose subscription id matches no project leaves the
\* ledger unchanged.
C21_UnmatchedSubscriptionIsDropped ==
  [][(/\ last'[1] \in {"deleted", "updated", "invoice_paid", "invoice_failed"}
      /\ RequestSubscription(last') # NULL
      /\ \A p \in ProjectIds :
           projects[p].stripe_subscription_id # RequestSubscription(last'))
     => /\ projects' = projects
        /\ payments' = payments
        /\ milestones' = milestones
        /\ links' = links]_vars

\* An invoice-paid event of subscription sub_9, which no project is linked
\* to, was just applied to a ledger with a linked project and a Payment:
\* nothing was added.
C21_Witness ==
  /\ last = <<"invoice_paid", "in_9">>
  /\ nops = 2
  /\ projects["p2"].stripe_subscription_id = "sub_1"
  /\ Len(payments) = 1
  /\ \A p \in ProjectIds : projects[p].stripe_subscription_id # "sub_9"

\* C22: a record_manual_payment form with a missing or non-numeric amount, a
\* method outside {venmo, cashapp, zelle} or a malformed payment date or
\* next-payment date is rejected before any mutation: the ledger is as it
\* was.
C22_InvalidManualFormIsRejected ==
  [][\A f \in ManualForms :
       (/\ last' = ManualRequest(f)
        /\ \/ f.payment_amount = ""
           \/ f.payment_amount \notin {"0.30", "-0.30"}
           \/ f.payment_method \notin {"venmo", "cashapp", "zelle"}
           \/ f.payment_date \notin {"", "2026-03-01"}
           \/ f.next_payment_date_manual \notin {"", "2026-03-01"})
       => /\ payments' = payments
          /\ projects' = projects
          /\ milestones' = milestones
          /\ links' = links]_vars

\* A form with a well-formed amount, method and payment date and a malformed
\* next-payment date was just posted for a project that already has a
\* recorded manual payment: that Payment is still the only one.
C22_Witness ==
  /\ last = <<"record_manual", "p2", "venmo", "0.30", "2026-03-01", "soon">>
  /\ nops = 2
  /\ Len(payments) = 1
  /\ projects["p2"].amount_paid = 30
  /\ projects["p2"].next_payment_date = NULL

\* C23: every valid record_manual_payment is recorded as a Payment whose
\* synthesized reference differs from the reference of every other Payment,
\* with its amount added to amount_paid, also when several are recorded for
\* one project within the same clock second.
C23_ManualReferenceIsUnique ==
  [][\A f \in ManualForms :
       (/\ last' = ManualRequest(f)
        /\ ManualFormValid(f))
       => /\ Len(payments') = Len(payments) + 1
          /\ \A i \in 1..Len(payments) :
               payments[i].stripe_payment_intent_id
                 # payments'[Len(payments')].stripe_payment_intent_id
          /\ projects'[f.project_id].amount_paid
               = projects[f.project_id].amount_paid + FloatTable[f.payment_amount]]_vars

C25_RecordingActivatesPending ==
  [][\A f \in ManualForms :
       (/\ last' = ManualRequest(f)
        /\ ManualFormValid(f)
        /\ projects[f.project_id].subscription_status = "pending")
       => projects'[f.project_id].subscription_status = "active"]_vars

\* Rows of project p in the order of their creation.
AgreementsOf(p) == {i \in 1..Len(agreements) : agreements[i].project_id = p}

\* C26: after any create_agreement calls, concurrent ones for one project
\* included, a project has at most one active agreement; the active one is
\* the one created last and every agreement created before it is inactive.
C26_OneActiveAgreementTheNewest ==
  \A p \in AgreementProjects :
    \A i \in AgreementsOf(p) :
      agreements[i].is_active <=> (\A j \in AgreementsOf(p) : j <= i)

\* Two create_agreement calls for one project read the same highest version
\* before either wrote, and both have committed.
C26_Witness ==
  \E p \in AgreementProjects :
    \E i, j \in AgreementsOf(p) :
      /\ i < j
      /\ agreements[i].version = agreements[j].version
      /\ \A a \in Creators : apc[a] = "idle"

\* C27: an (agreement, customer) pair has at most one signature; a stored
\* signature is never changed or replaced, and a sign_agreement call for a
\* pair that has one yields no signature id, also when two calls for the
\* pair run concurrently.
C27_SignatureIsWriteOnce ==
  [][ /\ Len(signatures') >= Len(signatures)
      /\ \A i \in 1..Len(signatures) : signatures'[i] = signatures[i]
      /\ \A i, j \in 1..Len(signatures') :
           (/\ signatures'[i].agreement_id = signatures'[j].agreement_id
            /\ signatures'[i].customer_id = signatures'[j].customer_id) => i = j
      /\ \A s \in Signers :
           (apc[s] # "signed" /\ apc'[s] = "signed") =>
             get_agreement_signature(signatures, alocal[s].agreement_id,
                                     alocal[s].customer_id) = {}
    ]_vars

\* Two sign requests for one pair passed the "already signed" checks
\* together: one stored its signature, the INSERT of the other was refused.
C27_Witness ==
  \E s, t \in Signers :
    /\ apc[s] = "signed"
    /\ apc[t] = "error"
    /\ alocal[s].agreement_id = alocal[t].agreement_id
    /\ alocal[s].customer_id = alocal[t].customer_id
    /\ alocal[s].signature_name # alocal[t].signature_name
    /\ Len(signatures) = 1

\* The project that owns subscription sub: the one project that carries it
\* (NULL when none or several do).
Owner(P, sub) ==
  LET S == {p \in ProjectIds : P[p].stripe_subscription_id = sub}
  IN IF sub # NULL /\ Cardinality(S) = 1 THEN CHOOSE p \in S : TRUE ELSE NULL

\* C28: a subscription-cancelled event whose subscription id matches a
\* project sets that project's subscription_status and status to cancelled
\* and clears next_payment_date; the notification is called with these
\* changes committed, and whatever its outcome they stay.
C28_CancelledEventCancelsProject ==
  [][\A p \in ProjectIds :
       (/\ last'[1] = "deleted"
        /\ Owner(projects, last'[2]) = p)
       => /\ projects'[p] = [projects[p] EXCEPT
                               !.subscription_status = "cancelled",
                               !.status = "cancelled",
                               !.next_payment_date = NULL]
          /\ \E m \in MailResults : calls' = {<<"notify", p, m, "cancelled">>}
          /\ resp' = 200]_vars

\* A linked subscription with a next payment date was cancelled by an event
\* whose notification failed.
C28_Witness ==
  /\ last[1] = "deleted"
  /\ \E p \in ProjectIds :
       /\ Owner(projects, last[2]) = p
       /\ projects[p].subscription_status = "cancelled"
       /\ projects[p].status = "cancelled"
       /\ admin_cancelled = {}
       /\ calls = {<<"notify", p, "error", "cancelled">>}

\* The local subscription_status the claim gives for the external status of
\* an updated event (NULL: the claim names none).
MappedStatus(u) ==
  IF u.status = "active"
  THEN IF u.cancel_at_period_end THEN "cancel_pending" ELSE "active"
  ELSE IF u.status = "past_due" THEN "past_due"
  ELSE IF u.status = "canceled" THEN "cancelled"
  ELSE NULL

\* C29 as stated: a subscription-updated event for a linked project maps
\* active to active, active with cancellation at period end to
\* cancel_pending, past_due to past_due, canceled to cancelled, and in each
\* case sets next_payment_date to the event's current period end.
C29_UpdatedAlwaysSetsPeriodEnd ==
  [][last'[1] = "updated" => \A u \in UpdatedEvents : \A p \in ProjectIds :
       (/\ last' = UpdatedRequest(u)
        /\ Owner(projects, u.id) = p
        /\ MappedStatus(u) # NULL)
       => /\ projects'[p].subscription_status = MappedStatus(u)
          /\ projects'[p].next_payment_date = u.current_period_end]_vars

\* C29 (amended): a subscription-updated event for a linked project maps
\* active to active, active with cancellation at period end to
\* cancel_pending, past_due to past_due, each with next_payment_date set to
\* the event's current period end; canceled maps to cancelled, sets the
\* project's status to cancelled and clears next_payment_date.
C29_UpdatedMapsStatus ==
  [][last'[1] = "updated" => \A u \in UpdatedEvents : \A p \in ProjectIds :
       (/\ last' = UpdatedRequest(u)
        /\ Owner(projects, u.id) = p
        /\ MappedStatus(u) # NULL)
       => /\ projects'[p].subscription_status = MappedStatus(u)
          /\ IF u.status = "canceled"
             THEN /\ projects'[p].next_payment_date = NULL
                  /\ projects'[p].status = "cancelled"
             ELSE projects'[p].next_payment_date = u.current_period_end]_vars

\* An updated event with status canceled and a period end reached the
\* project that owns its subscription.
C29_Witness ==
  /\ last[1] = "updated"
  /\ last[3] = "canceled"
  /\ last[5] # NULL
  /\ \E p \in ProjectIds :
       /\ Owner(projects, last[2]) = p
       /\ projects[p].subscription_status = "cancelled"
       /\ projects[p].next_payment_date = NULL

\* C30: an invoice-paid event for a linked project inserts exactly one
\* succeeded Payment for that project, sets next_payment_date to the period
\* end retrieved from the processor, and resets subscription_status to
\* active if it had been past_due.
C30_InvoicePaidRecordsAndReactivates ==
  [][\A i \in InvoiceIds : \A p \in ProjectIds :
       (/\ last' = <<"invoice_paid", i>>
        /\ Owner(projects, Invoices[i].subscription) = p)
       => /\ Len(payments') = Len(payments) + 1
          /\ SubSeq(payments', 1, Len(payments)) = payments
          /\ payments'[Len(payments')].project_id = p
          /\ payments'[Len(payments')].status = "succeeded"
          /\ \A c \in calls' :
               (c[1] = "retrieve" /\ c[3] \notin {"error", NULL})
                 => projects'[p].next_payment_date = c[3]
          /\ projects[p].subscription_status = "past_due"
               => projects'[p].subscription_status = "active"]_vars

\* C31: a checkout-completed event in subscription mode that carries a
\* subscription id and full metadata sets the project's subscription
\* reference to that id and its subscription_status to active, creates no
\* Payment and leaves amount_paid, milestones and payment links unchanged.
C31_SubscriptionCheckoutOnlyLinks ==
  [][\A s \in SessionIds :
       LET cs == CheckoutSessions[s]
       IN (/\ last' = <<"checkout", s>>
           /\ cs.mode = "subscription"
           /\ cs.subscription # NULL
           /\ cs.customer_id # NULL
           /\ cs.project_id # NULL)
          => /\ projects' = [projects EXCEPT
                               ![cs.project_id].stripe_subscription_id = cs.subscription,
                               ![cs.project_id].subscription_status = "active"]
             /\ payments' = payments
             /\ milestones' = milestones
             /\ links' = links]_vars

\* A subscription checkout reached a ledger that already held payments and
\* a project whose status an admin had set to cancelled.
C31_Witness ==
  /\ last = <<"checkout", "cs_sub">>
  /\ projects["p2"].stripe_subscription_id = "sub_1"
  /\ projects["p2"].subscription_status = "active"
  /\ projects["p2"].status = "cancelled"
  /\ Len(payments) > 0

\* The not-yet-completed payment milestones of project p whose amount is
\* within a cent of the paid amount (in cents).
UnpaidWithin(M, p, amount) ==
  {m \in MilestoneIds :
     /\ M[m].project_id = p
     /\ M[m].is_payment_milestone
     /\ M[m].status # "completed"
     /\ M[m].payment_amount - 10 * amount < 10
     /\ 10 * amount - M[m].payment_amount < 10}

\* C32: a one-time checkout-completed event without a milestone id completes
\* at most one milestone: the first, in order_index order, of the project's
\* not-yet-completed payment milestones whose amount differs from the paid
\* amount by less than 0.01; if none matches, no milestone changes.
C32_AutoCompletesFirstMatch ==
  [][\A s \in SessionIds :
       LET cs == CheckoutSessions[s]
           U == UnpaidWithin(milestones, cs.project_id, cs.amount_total)
       IN (/\ last' = <<"checkout", s>>
           /\ cs.mode = "payment"
           /\ cs.milestone_id = NULL
           /\ cs.customer_id # NULL
           /\ cs.project_id # NULL)
          => IF U = {} THEN milestones' = milestones
             ELSE \E m \in U :
                    /\ \A n \in U : milestones[m].order_index <= milestones[n].order_index
                    /\ milestones'[m].status = "completed"
                    /\ \A n \in MilestoneIds \ {m} : milestones'[n] = milestones[n]]_vars

\* Two checkouts of 0.50 without milestone id: the first completed m2 (0.50)
\* ahead of m3, the second completed m3 (0.504) by the tolerance.
C32_Witness ==
  /\ last = <<"checkout", "cs_nopi">>
  /\ milestones["m1"].status = "pending"
  /\ milestones["m2"].marks = 1
  /\ milestones["m3"].marks = 1

\* The subscription-mode projects without subscription reference owned by
\* the customer whose email is the billing email (none: no such customer).
UnlinkedOf(P, email) ==
  {p \in ProjectIds : /\ email \in CustomerIds
                      /\ P[p].customer_id = email
                      /\ P[p].is_subscription
                      /\ P[p].stripe_subscription_id = NULL}

\* C33: a subscription-created event without project_id metadata is attached
\* to the most recently created subscription-mode project without
\* subscription reference of the customer whose email is the event's billing
\* email; without billing email, such a customer or such a project the event
\* changes nothing.
C33_FallbackLinksNewestUnlinked ==
  [][\A e \in CreatedIds :
       LET ev == CreatedEvents[e]
           U == UnlinkedOf(projects, ev.email)
       IN (last' = <<"created", e>> /\ ev.project_id = NULL)
          => IF ev.email = NULL \/ U = {}
             THEN /\ projects' = projects
                  /\ payments' = payments
                  /\ milestones' = milestones
                  /\ links' = links
             ELSE \E p \in U :
                    /\ \A q \in U : projects[p].created_at >= projects[q].created_at
                    /\ projects'[p].stripe_subscription_id = ev.id
                    /\ \A q \in ProjectIds \ {p} : projects'[q] = projects[q]]_vars

\* A created event without metadata found two unlinked subscription projects
\* of its customer and was attached to the newer one, p3.
C33_Witness ==
  /\ last = <<"created", "ce_nometa">>
  /\ projects["p3"].stripe_subscription_id = "sub_1"
  /\ projects["p2"].stripe_subscription_id = NULL
  /\ Len(payments) = 1

\* C34: a one-time checkout-completed event for a checkout session saved as
\* an admin-generated payment link, with or without a project, leaves the
\* link marked used; until such an event the link stays unused.
C34_PaidLinkIsMarkedUsed ==
  [][\A s \in SavedLinks :
       /\ (last' = <<"checkout", s>> /\ CheckoutSessions[s].mode = "payment")
            => links'[s]
       /\ (links'[s] # links[s]) => last' = <<"checkout", s>>]_vars

\* C35: in every reachable state at most one project carries a given
\* subscription reference.
C35_OneProjectPerSubscription ==
  \A p, q \in ProjectIds :
    (/\ projects[p].stripe_subscription_id # NULL
     /\ projects[p].stripe_subscription_id = projects[q].stripe_subscription_id)
    => p = q

\* The operations a logged-in customer starts; their requests carry the
\* session's customer and the project asked for.
CustomerOps == {"confirm_manual", "switch_to_manual", "cancel", "create_checkout"}

\* C36: confirm manual payment, switch to manual, cancel subscription and
\* create checkout session never modify a project of another customer; asked
\* for a project that is missing or owned by another customer they leave the
\* ledger unchanged and call the processor not at all.
C36_CustomerOpsKeepToOwnProjects ==
  [][last'[1] \in CustomerOps
       => /\ \A p \in ProjectIds :
               projects[p].customer_id # last'[2] => projects'[p] = projects[p]
          /\ (\/ last'[3] \notin ProjectIds
              \/ projects[last'[3]].customer_id # last'[2])
             => /\ projects' = projects
                /\ milestones' = milestones
                /\ payments' = payments
                /\ links' = links
                /\ calls' = {}]_vars

\* Customer c2 asked to cancel the subscription of c1's linked project p2:
\* nothing was sent to the processor and p2 stayed active.
C36_Witness ==
  /\ last = <<"cancel", "c2", "p2">>
  /\ projects["p2"].stripe_subscription_id # NULL
  /\ projects["p2"].subscription_status = "active"
  /\ calls = {}

\* C37: the customer's cancel_subscription sets subscription_status to
\* cancel_pending only after the processor accepted the cancel-at-period-end
\* request; without subscription reference, or when the processor call
\* fails, subscription_status is unchanged. It never changes the project's
\* status or next_payment_date.
C37_CancelPendingOnlyAfterAccept ==
  [][last'[1] = "cancel"
       => \A p \in ProjectIds :
            /\ projects'[p].status = projects[p].status
            /\ projects'[p].next_payment_date = projects[p].next_payment_date
            /\ projects'[p].subscription_status # projects[p].subscription_status
                 => /\ p = last'[3]
                    /\ projects'[p].subscription_status = "cancel_pending"
                    /\ calls' = {<<"modify", projects[p].stripe_subscription_id, "ok">>}
            /\ (\/ projects[p].stripe_subscription_id = NULL
                \/ \E c \in calls' : c[1] = "modify" /\ c[3] = "error")
                 => projects'[p].subscription_status = projects[p].subscription_status
            /\ (/\ p = last'[3]
                /\ projects[p].customer_id = last'[2]
                /\ calls' = {<<"modify", projects[p].stripe_subscription_id, "ok">>})
                 => projects'[p].subscription_status = "cancel_pending"]_vars

\* The owner asked to cancel a linked subscription and the processor
\* refused: the project stayed active.
C37_Witness ==
  /\ last = <<"cancel", "c1", "p2">>
  /\ calls = {<<"modify", "sub_1", "error">>}
  /\ projects["p2"].subscription_status = "active"

\* C38: when the processor lookup of an invoice-paid event for a linked
\* project fails or yields no billing-period end, the succeeded Payment is
\* still recorded and subscription_status and next_payment_date stay as they
\* were: a past_due subscription stays past_due.
C38_FailedLookupKeepsStatus ==
  [][\A i \in InvoiceIds : \A p \in ProjectIds :
       (/\ last' = <<"invoice_paid", i>>
        /\ Owner(projects, Invoices[i].subscription) = p
        /\ \E c \in calls' : c[1] = "retrieve" /\ c[3] \in {"error", NULL})
       => /\ Len(payments') = Len(payments) + 1
          /\ SubSeq(payments', 1, Len(payments)) = payments
          /\ payments'[Len(payments')].project_id = p
          /\ payments'[Len(payments')].status = "succeeded"
          /\ projects'[p].subscription_status = projects[p].subscription_status
          /\ projects'[p].next_payment_date = projects[p].next_payment_date]_vars

\* An invoice of a past_due subscription was paid while the lookup raised:
\* the payment is recorded and the project is still past_due.
C38_Witness ==
  /\ last = <<"invoice_paid", "in_1">>
  /\ calls = {<<"retrieve", "sub_1", "error">>}
  /\ Owner(projects, "sub_1") = "p2"
  /\ projects["p2"].subscription_status = "past_due"
  /\ payments[Len(payments)].status = "succeeded"
  /\ payments[Len(payments)].project_id = "p2"

\* C39: a subscription-updated event for a linked project always overwrites
\* next_payment_date; an event that carries no current period end replaces a
\* stored next_payment_date by null, whatever the event's status.
C39_UpdatedOverwritesDate ==
  [][last'[1] = "updated" => \A u \in UpdatedEvents : \A p \in ProjectIds :
       (/\ last' = UpdatedRequest(u)
        /\ Owner(projects, u.id) = p)
       => /\ projects'[p].next_payment_date \in {u.current_period_end, NULL}
          /\ u.current_period_end = NULL
               => projects'[p].next_payment_date = NULL]_vars

\* A created event stored the date d1 on p3; the updated event that followed
\* (past_due, no period end) left p3 without a date.
C39_Witness ==
  /\ nops = 2
  /\ last = <<"updated", "sub_1", "past_due", "now", NULL>>
  /\ Owner(projects, "sub_1") = "p3"
  /\ projects["p3"].subscription_status = "past_due"
  /\ projects["p3"].next_payment_date = NULL

====
